---- MODULE Spec2Model ----
(***************************************************************************)
(* Model of the multicall client: Call.Pack / Call.Unpack (call.go), and   *)
(* Caller.Call, Caller.CallChunked and chunkInputs (the caller file).      *)
(*                                                                         *)
(* A *Call is a pointer: the model keeps the pointed-to records in the     *)
(* sequence `calls` and represents a []*Call by a sequence of indices into *)
(* it.  Mutations through a pointer are therefore visible to every list    *)
(* that holds the pointer, as in Go.                                       *)
(***************************************************************************)
EXTENDS Integers, Sequences, FiniteSets, TLC

VARIABLES
    pc,         \* "init" before the operation, "done" after it returned or panicked
    op,         \* the operation that ran: "none", "Call", "CallChunked", "Unpack", "chunkInputs"
    calls,      \* the Call records (the heap the *Call pointers point into)
    calls0,     \* history: the Call records as they were before the operation
    args,       \* the caller's argument list: a sequence of pointers (indices of calls)
    chunkSize,  \* the chunkSize argument of CallChunked / chunkInputs
    ret,        \* the returned []*Call: a sequence of pointers
    err,        \* the returned error: a sequence of wrapped frames, <<>> is nil
    remoteLog,  \* history: every Aggregate3 invocation, with what it was sent and answered
    unpacked,   \* history: the pointers on which Call.Unpack was invoked
    inputs,     \* the inputs argument of chunkInputs (a generic []T)
    chunks,     \* the result of chunkInputs
    payload     \* the b argument of a direct Call.Unpack

vars == <<pc, op, calls, calls0, args, chunkSize, ret, err, remoteLog, unpacked,
          inputs, chunks, payload>>

----------------------------------------------------------------------------
(* Bounds of the model. *)

MaxInputs == 4      \* longest slice handed to chunkInputs
MaxElem == 2        \* elements of that slice are drawn from 1..MaxElem
MaxCalls == 2       \* most calls handed to one Caller.Call
MaxChunked == 3     \* most calls handed to one Caller.CallChunked
MaxFields == 2      \* most fields of an output struct, most words of a return payload
MaxWord == 2        \* words of a directly unpacked payload are drawn from 1..MaxWord

----------------------------------------------------------------------------
(* chunkInputs *)

Min(a, b) == IF a < b THEN a ELSE b

\* inputs[start:end] of Go (0-based, end exclusive) on a 1-based sequence.
Slice(s, start, end) == SubSeq(s, start + 1, end)

\* Mutant: the remainder chunk is forgotten.
chunkInputs_NoRemainder(size, in) ==
    IF Len(in) = 0 THEN <<>>
    ELSE IF size <= 0 \/ Len(in) < 2 \/ size > Len(in) THEN <<in>>
    ELSE [i \in 1..(Len(in) \div size) |->
             Slice(in, (i - 1) * size, (i - 1) * size + size)]

\* Mutant: a non-positive size is clamped to 1 instead of meaning "no split".
chunkInputs_ClampSize(size, in) ==
    IF Len(in) = 0 THEN <<>>
    ELSE IF Len(in) < 2 \/ size > Len(in) THEN <<in>>
    ELSE IF size <= 0 THEN [i \in 1..Len(in) |-> <<in[i]>>]
    ELSE LET lastChunkSize == Len(in) % size
             chunkCount == Len(in) \div size
             full == [i \in 1..chunkCount |->
                         Slice(in, (i - 1) * size, (i - 1) * size + size)]
         IN  IF lastChunkSize > 0
             THEN Append(full, Slice(in, chunkCount * size,
                                     chunkCount * size + lastChunkSize))
             ELSE full

chunkInputs(size, in) ==
    IF Len(in) = 0 THEN <<>>
    ELSE IF size <= 0 \/ Len(in) < 2 \/ size > Len(in) THEN <<in>>
    ELSE LET lastChunkSize == Len(in) % size
             chunkCount == Len(in) \div size
             full == [i \in 1..chunkCount |->
                         Slice(in, (i - 1) * size, (i - 1) * size + size)]
         IN  IF lastChunkSize > 0
             THEN Append(full, Slice(in, chunkCount * size,
                                     chunkCount * size + lastChunkSize))
             ELSE full

----------------------------------------------------------------------------
(* The parsed ABI held by a Contract, and the go-ethereum primitives the   *)
(* Call methods delegate to.                                               *)

\* Contract.abi: each method's number of inputs and of outputs.
ABI == [balanceOf   |-> [nin |-> 1, nout |-> 1],
        getReserves |-> [nin |-> 1, nout |-> 2]]

Methods == DOMAIN ABI

\* abi.Pack(method, inputs...): fails on an arity mismatch, otherwise the
\* selector followed by the encoded arguments.
abiPack(method, in) ==
    IF Len(in) # ABI[method].nin
    THEN [err |-> TRUE, data |-> [sel |-> method, words |-> <<>>]]
    ELSE [err |-> FALSE, data |-> [sel |-> method, words |-> in]]

\* abi.Unpack(method, b): fails on a payload too short for the declared
\* outputs, otherwise the declared number of values, in order; surplus
\* bytes are ignored.
abiUnpack(method, b) ==
    IF Len(b) < ABI[method].nout
    THEN [err |-> TRUE, out |-> <<>>]
    ELSE [err |-> FALSE, out |-> SubSeq(b, 1, ABI[method].nout)]

----------------------------------------------------------------------------
(* Call *)

\* A freshly built Call.  Kind is what reflect.ValueOf(call.Outputs) is:
\* "ptr_struct", a pointer to a struct; "struct", a struct passed by value
\* (its fields cannot be set); "other", anything else.
NewCall(method, in, kind, nfields, canFail, failed) ==
    [Method |-> method, Inputs |-> in, Kind |-> kind,
     Outputs |-> [f \in 1..nfields |-> 0],
     CanFail |-> canFail, Failed |-> failed]

Pack(call) == abiPack(call.Method, call.Inputs)

\* The result of Unpack is the call as Unpack leaves it and how it ended:
\* "nil", an error ("not_struct", "abi_unpack"), or "panic".
\* Mutant: the field loop stops one field early.
Unpack_SkipsLastField(call, b) ==
    IF call.Kind \notin {"ptr_struct", "struct"}
    THEN [call |-> call, err |-> "not_struct"]
    ELSE LET d == abiUnpack(call.Method, b)
             fieldCount == Len(call.Outputs) - 1
             nset == IF call.Kind = "ptr_struct"
                     THEN Min(fieldCount, Len(d.out)) ELSE 0
             set == [f \in 1..Len(call.Outputs) |->
                        IF f <= nset THEN d.out[f] ELSE call.Outputs[f]]
         IN  IF d.err THEN [call |-> call, err |-> "abi_unpack"]
             ELSE IF nset < fieldCount
                  THEN [call |-> [call EXCEPT !.Outputs = set], err |-> "panic"]
                  ELSE [call |-> [call EXCEPT !.Outputs = set], err |-> "nil"]

Unpack(call, b) ==
    IF call.Kind \notin {"ptr_struct", "struct"}
    THEN [call |-> call, err |-> "not_struct"]
    ELSE LET d == abiUnpack(call.Method, b)
             fieldCount == Len(call.Outputs)
             \* the loop sets fields 0, 1, ... until out[i] is out of range
             \* or field.Set panics on an unaddressable struct
             nset == IF call.Kind = "ptr_struct"
                     THEN Min(fieldCount, Len(d.out)) ELSE 0
             set == [f \in 1..fieldCount |->
                        IF f <= nset THEN d.out[f] ELSE call.Outputs[f]]
         IN  IF d.err THEN [call |-> call, err |-> "abi_unpack"]
             ELSE IF nset < fieldCount
                  THEN [call |-> [call EXCEPT !.Outputs = set], err |-> "panic"]
                  ELSE [call |-> [call EXCEPT !.Outputs = set], err |-> "nil"]

----------------------------------------------------------------------------
(* The remote aggregation contract behind contract.Interface.              *)

Nil == <<>>
Frame(kind, index) == [kind |-> kind, index |-> index]
Panic == <<Frame("panic", -1)>>

\* The word f of the data the target returns for the call with argument u.
ReturnWord(u, f) == 10 * u + f

\* The answer of the target to the call sent at position i.
Answer(multiCalls, net, i) ==
    LET u == multiCalls[i].CallData.words[1]
    IN  [Success |-> net.entries[u].Success,
         ReturnData |-> [f \in 1..net.entries[u].n |-> ReturnWord(u, f)]]

\* Aggregate3: the invocation numbered callNo either fails as a whole or
\* answers one (Success, ReturnData) entry per call sent, in the order sent.
\* net.failAt is the invocation that fails by itself (0: none); net.entries
\* gives, for the call with argument u, the success flag and the length of
\* the data.  The aggregator fails the whole invocation when a call that
\* does not allow failure fails.
Aggregate3(multiCalls, net, callNo) ==
    IF \/ net.failAt = callNo
       \/ \E i \in 1..Len(multiCalls) :
            ~multiCalls[i].AllowFailure /\ ~Answer(multiCalls, net, i).Success
    THEN [err |-> TRUE, results |-> <<>>]
    ELSE [err |-> FALSE,
          results |-> [i \in 1..Len(multiCalls) |-> Answer(multiCalls, net, i)]]

----------------------------------------------------------------------------
(* Caller *)

\* The state a dispatch works on.
State(cs, log, unp) == [calls |-> cs, log |-> log, unpacked |-> unp]

\* First index (1-based) whose Pack fails, 0 if none does.
FirstPackFailure(cs, ids) ==
    IF \E i \in 1..Len(ids) : Pack(cs[ids[i]]).err
    THEN CHOOSE i \in 1..Len(ids) :
            /\ Pack(cs[ids[i]]).err
            /\ \A j \in 1..(i - 1) : ~Pack(cs[ids[j]]).err
    ELSE 0

\* Mutant: a failed entry is unpacked like any other.
RECURSIVE UnpackResults_NoSkip(_, _, _, _)
UnpackResults_NoSkip(st, ids, results, i) ==
    IF i > Len(results) THEN [st |-> st, ret |-> ids, err |-> Nil]
    ELSE LET id == ids[i]
             failed == ~results[i].Success
             marked == [st EXCEPT !.calls[id].Failed = failed]
             r == Unpack(marked.calls[id], results[i].ReturnData)
             after == [marked EXCEPT !.calls[id] = r.call,
                                     !.unpacked = @ \cup {id}]
         IN  IF r.err = "panic"
                  THEN [st |-> after, ret |-> <<>>, err |-> Panic]
             ELSE IF r.err # "nil"
                  THEN [st |-> after, ret |-> ids,
                        err |-> <<Frame("unpack_at", i - 1), Frame(r.err, -1)>>]
             ELSE UnpackResults_NoSkip(after, ids, results, i + 1)

\* Mutant: an unpack error is remembered but the loop goes on.
RECURSIVE UnpackResults_GoesOn(_, _, _, _)
UnpackResults_GoesOn(st, ids, results, i) ==
    IF i > Len(results) THEN [st |-> st, ret |-> ids, err |-> Nil]
    ELSE LET id == ids[i]
             failed == ~results[i].Success
             marked == [st EXCEPT !.calls[id].Failed = failed]
             r == Unpack(marked.calls[id], results[i].ReturnData)
             after == [marked EXCEPT !.calls[id] = r.call,
                                     !.unpacked = @ \cup {id}]
             rest == UnpackResults_GoesOn(after, ids, results, i + 1)
         IN  IF failed THEN UnpackResults_GoesOn(marked, ids, results, i + 1)
             ELSE IF r.err = "panic"
                  THEN [st |-> after, ret |-> <<>>, err |-> Panic]
             ELSE IF r.err # "nil"
                  THEN [st |-> rest.st, ret |-> rest.ret,
                        err |-> <<Frame("unpack_at", i - 1), Frame(r.err, -1)>>]
             ELSE rest

\* The loop over results of Caller.Call, from index i (1-based) on.
RECURSIVE UnpackResults(_, _, _, _)
UnpackResults(st, ids, results, i) ==
    IF i > Len(results) THEN [st |-> st, ret |-> ids, err |-> Nil]
    ELSE LET id == ids[i]
             failed == ~results[i].Success
             marked == [st EXCEPT !.calls[id].Failed = failed]
             r == Unpack(marked.calls[id], results[i].ReturnData)
             after == [marked EXCEPT !.calls[id] = r.call,
                                     !.unpacked = @ \cup {id}]
         IN  IF failed THEN UnpackResults(marked, ids, results, i + 1)
             ELSE IF r.err = "panic"
                  THEN [st |-> after, ret |-> <<>>, err |-> Panic]
             ELSE IF r.err # "nil"
                  THEN [st |-> after, ret |-> ids,
                        err |-> <<Frame("unpack_at", i - 1), Frame(r.err, -1)>>]
             ELSE UnpackResults(after, ids, results, i + 1)

\* Mutant: a failed aggregated call flags every unit as failed.
Call_FlagsOnRemoteError(st, ids, net) ==
    LET bad == FirstPackFailure(st.calls, ids)
        multiCalls == [i \in 1..Len(ids) |->
                          [AllowFailure |-> st.calls[ids[i]].CanFail,
                           CallData |-> Pack(st.calls[ids[i]]).data]]
        reply == Aggregate3(multiCalls, net, Len(st.log) + 1)
        sent == [st EXCEPT !.log = Append(@, [multiCalls |-> multiCalls,
                                                ids |-> ids,
                                                err |-> reply.err,
                                                results |-> reply.results])]
        flagged == [sent EXCEPT !.calls = [u \in DOMAIN @ |->
                        IF \E i \in 1..Len(ids) : ids[i] = u
                        THEN [@[u] EXCEPT !.Failed = TRUE] ELSE @[u]]]
    IN  IF bad # 0
        THEN [st |-> st, ret |-> ids,
              err |-> <<Frame("pack_at", bad - 1), Frame("abi_pack", -1)>>]
        ELSE IF reply.err
             THEN [st |-> flagged, ret |-> ids, err |-> <<Frame("multicall", -1)>>]
             ELSE UnpackResults(sent, ids, reply.results, 1)

\* Mutant: the calls packed so far are sent before the pack error is returned.
Call_SendsBeforePackError(st, ids, net) ==
    LET bad == FirstPackFailure(st.calls, ids)
        npacked == IF bad # 0 THEN bad - 1 ELSE Len(ids)
        multiCalls == [i \in 1..npacked |->
                          [AllowFailure |-> st.calls[ids[i]].CanFail,
                           CallData |-> Pack(st.calls[ids[i]]).data]]
        reply == Aggregate3(multiCalls, net, Len(st.log) + 1)
        sent == [st EXCEPT !.log = Append(@, [multiCalls |-> multiCalls,
                                                ids |-> ids,
                                                err |-> reply.err,
                                                results |-> reply.results])]
    IN  IF bad # 0
        THEN [st |-> sent, ret |-> ids,
              err |-> <<Frame("pack_at", bad - 1), Frame("abi_pack", -1)>>]
        ELSE IF reply.err
             THEN [st |-> sent, ret |-> ids, err |-> <<Frame("multicall", -1)>>]
             ELSE UnpackResults(sent, ids, reply.results, 1)

Call(st, ids, net) ==
    LET bad == FirstPackFailure(st.calls, ids)
        multiCalls == [i \in 1..Len(ids) |->
                          [AllowFailure |-> st.calls[ids[i]].CanFail,
                           CallData |-> Pack(st.calls[ids[i]]).data]]
        reply == Aggregate3(multiCalls, net, Len(st.log) + 1)
        sent == [st EXCEPT !.log = Append(@, [multiCalls |-> multiCalls,
                                                ids |-> ids,
                                                err |-> reply.err,
                                                results |-> reply.results])]
    IN  IF bad # 0
        THEN [st |-> st, ret |-> ids,
              err |-> <<Frame("pack_at", bad - 1), Frame("abi_pack", -1)>>]
        ELSE IF reply.err
             THEN [st |-> sent, ret |-> ids, err |-> <<Frame("multicall", -1)>>]
             ELSE UnpackResults(sent, ids, reply.results, 1)

\* Mutant: on a failed chunk the results accumulated so far are returned.
RECURSIVE ChunkLoop_ReturnsPartial(_, _, _, _, _, _)
ChunkLoop_ReturnsPartial(st, ids, cks, i, allCalls, net) ==
    IF i > Len(cks) THEN [st |-> st, ret |-> allCalls, err |-> Nil]
    ELSE LET r == Call(st, cks[i], net)
         IN  IF r.err = Panic THEN r
             ELSE IF r.err # Nil
                  THEN [st |-> r.st, ret |-> allCalls,
                        err |-> <<Frame("chunk", i - 1)>> \o r.err]
             ELSE ChunkLoop_ReturnsPartial(r.st, ids, cks, i + 1, allCalls \o r.ret, net)

\* The loop over chunks of Caller.CallChunked, from chunk i (1-based) on.
RECURSIVE ChunkLoop(_, _, _, _, _, _)
ChunkLoop(st, ids, cks, i, allCalls, net) ==
    IF i > Len(cks) THEN [st |-> st, ret |-> allCalls, err |-> Nil]
    ELSE LET r == Call(st, cks[i], net)
         IN  IF r.err = Panic THEN r
             ELSE IF r.err # Nil
                  THEN [st |-> r.st, ret |-> ids,
                        err |-> <<Frame("chunk", i - 1)>> \o r.err]
             ELSE ChunkLoop(r.st, ids, cks, i + 1, allCalls \o r.ret, net)

\* Mutant: the calls are dispatched in one aggregated call, unchunked.
CallChunked_Unchunked(st, size, ids, net) ==
    ChunkLoop(st, ids, chunkInputs(0, ids), 1, <<>>, net)

\* The cooldown sleep between chunks changes no state and is left out.
CallChunked(st, size, ids, net) ==
    ChunkLoop(st, ids, chunkInputs(size, ids), 1, <<>>, net)


----------------------------------------------------------------------------
(* Specification Spec: one Caller.Call on up to MaxCalls calls of every    *)
(* shape.                                                                  *)

Pointers(n) == [i \in 1..n |-> i]

\* Output destinations handed to a dispatch.
Destinations ==
    {<<"ptr_struct", n>> : n \in 1..MaxFields} \cup {<<"other", 0>>}

\* The calls a caller can build for position u: either method, the right
\* or a wrong number of inputs, any destination.  Spec builds them with
\* AllowFailure(), so that the remote side may report them failed one by one.
CallsAt(u, canFail, failed) ==
    {NewCall(m, in, d[1], d[2], canFail, failed) :
        m \in Methods, in \in {<<u>>, <<>>}, d \in Destinations}

\* What the remote side may answer for n calls, failing at most the first
\* invocation.
Entries == [Success : BOOLEAN, n : 0..MaxFields]
Nets(n, lastCall) == [failAt : 0..lastCall, entries : [1..n -> Entries]]

\* The remote side is consulted only once every call has packed; until then
\* its answer is not an input of the dispatch.
Unasked(n) == [failAt |-> 0, entries |-> [u \in 1..n |-> [Success |-> TRUE, n |-> 0]]]
AnswersTo(cs, ids) ==
    IF FirstPackFailure(cs, ids) # 0 THEN {Unasked(Len(ids))} ELSE Nets(Len(ids), 1)

Idle ==
    /\ pc = "init" /\ op = "none"
    /\ ret = <<>> /\ err = Nil /\ remoteLog = <<>> /\ unpacked = {}
    /\ chunkSize = 0 /\ chunks = <<>> /\ payload = <<>>

Init ==
    /\ Idle
    /\ inputs = <<>>
    /\ \E n \in 0..MaxCalls, failed \in BOOLEAN :
        /\ calls \in {cs \in [1..n -> UNION {CallsAt(u, TRUE, failed) : u \in 1..n}] :
                        \A u \in 1..n : cs[u] \in CallsAt(u, TRUE, failed)}
        /\ args = Pointers(n)
    /\ calls0 = calls

Returned(name, r) ==
    /\ pc' = "done"
    /\ op' = name
    /\ calls' = r.st.calls
    /\ remoteLog' = r.st.log
    /\ unpacked' = r.st.unpacked
    /\ ret' = r.ret
    /\ err' = r.err

\* caller.Call(opts, calls...)
DoCall ==
    /\ pc = "init"
    /\ \E net \in AnswersTo(calls, args) :
          Returned("Call", Call(State(calls, <<>>, {}), args, net))
    /\ UNCHANGED <<calls0, args, chunkSize, inputs, chunks, payload>>

Next == DoCall

Spec == Init /\ [][Next]_vars

----------------------------------------------------------------------------
(* Specification SpecChunked: one Caller.CallChunked on up to MaxChunked   *)
(* balanceOf calls with one-field destinations.                            *)

ChunkedCallsAt(u, canFail, failed) ==
    {NewCall("balanceOf", in, "ptr_struct", 1, canFail, failed) :
        in \in {<<u>>, <<>>}}

\* Each entry succeeded or failed, with a payload that decodes or is empty.
ChunkedNets(n) ==
    [failAt : 0..n, entries : [1..n -> [Success : BOOLEAN, n : {0, 1}]]]

InitChunked ==
    /\ Idle
    /\ inputs = <<>>
    /\ \E n \in 0..MaxChunked, canFail \in BOOLEAN, failed \in BOOLEAN :
        /\ calls \in {cs \in [1..n -> UNION {ChunkedCallsAt(u, canFail, failed) : u \in 1..n}] :
                        \A u \in 1..n : cs[u] \in ChunkedCallsAt(u, canFail, failed)}
        /\ args = Pointers(n)
    /\ calls0 = calls

\* caller.CallChunked(opts, chunkSize, cooldown, calls...)
DoCallChunked ==
    /\ pc = "init"
    /\ \E size \in -1..(MaxChunked + 1), net \in ChunkedNets(Len(args)) :
        /\ chunkSize' = size
        /\ Returned("CallChunked", CallChunked(State(calls, <<>>, {}), size, args, net))
    /\ UNCHANGED <<calls0, args, inputs, chunks, payload>>

NextChunked == DoCallChunked

SpecChunked == InitChunked /\ [][NextChunked]_vars

----------------------------------------------------------------------------
(* Specification SpecUnpack: one Call.Unpack on a call of any shape.       *)

AllDestinations ==
    ({"ptr_struct", "struct"} \X (0..MaxFields)) \cup {<<"other", 0>>}

Payloads == UNION {[1..n -> 1..MaxWord] : n \in 0..MaxFields}

InitUnpack ==
    /\ Idle
    /\ inputs = <<>>
    /\ \E m \in Methods, d \in AllDestinations, failed \in BOOLEAN :
          calls = <<NewCall(m, <<1>>, d[1], d[2], FALSE, failed)>>
    /\ args = Pointers(1)
    /\ calls0 = calls

\* call.Unpack(b)
DoUnpack ==
    /\ pc = "init"
    /\ \E b \in Payloads :
        LET r == Unpack(calls[1], b)
        IN  /\ payload' = b
            /\ calls' = <<r.call>>
            /\ err' = IF r.err = "nil" THEN Nil ELSE <<Frame(r.err, -1)>>
    /\ pc' = "done"
    /\ op' = "Unpack"
    /\ unpacked' = {1}
    /\ UNCHANGED <<calls0, args, chunkSize, ret, remoteLog, inputs, chunks>>

NextUnpack == DoUnpack

SpecUnpack == InitUnpack /\ [][NextUnpack]_vars

----------------------------------------------------------------------------
(* Specification SpecChunk: one chunkInputs on a slice of up to MaxInputs  *)
(* elements.                                                               *)

InitChunk ==
    /\ Idle
    /\ inputs \in UNION {[1..n -> 1..MaxElem] : n \in 0..MaxInputs}
    /\ calls = <<>> /\ calls0 = <<>> /\ args = <<>>

\* chunkInputs(chunkSize, inputs)
DoChunkInputs ==
    /\ pc = "init"
    /\ \E size \in -1..(MaxInputs + 1) :
        /\ chunkSize' = size
        /\ chunks' = chunkInputs(size, inputs)
    /\ pc' = "done"
    /\ op' = "chunkInputs"
    /\ UNCHANGED <<calls, calls0, args, ret, err, remoteLog, unpacked, inputs, payload>>

NextChunk == DoChunkInputs

SpecChunk == InitChunk /\ [][NextChunk]_vars


----------------------------------------------------------------------------
(* Properties of chunkInputs (specification SpecChunk).                    *)

RECURSIVE Flatten(_)
Flatten(ss) == IF ss = <<>> THEN <<>> ELSE Head(ss) \o Flatten(Tail(ss))

Chunked == pc = "done" /\ op = "chunkInputs"

\* C5: for a non-empty slice and chunkSize >= 1, the chunks concatenated in
\* order give back the slice, no chunk is empty, every chunk but the last has
\* exactly chunkSize elements and the last has between 1 and chunkSize.
C5_ChunksPartitionInputs ==
    (Chunked /\ Len(inputs) >= 1 /\ chunkSize >= 1) =>
        /\ Flatten(chunks) = inputs
        /\ Len(chunks) >= 1
        /\ \A c \in 1..Len(chunks) : Len(chunks[c]) >= 1
        /\ \A c \in 1..(Len(chunks) - 1) : Len(chunks[c]) = chunkSize
        /\ Len(chunks[Len(chunks)]) <= chunkSize

\* Witness of C5: a split into two full chunks and a shorter remainder.
C5_Witness ==
    /\ Chunked /\ chunkSize = 2 /\ Len(inputs) = 3 /\ inputs[1] # inputs[2]
    /\ Len(chunks) = 2 /\ Len(chunks[2]) = 1

\* C6: for a non-empty slice, chunkInputs returns the single chunk equal to
\* the slice whenever size <= 0, size > len(inputs) or len(inputs) < 2.
C6_NoSplit ==
    (Chunked /\ Len(inputs) >= 1
        /\ (chunkSize <= 0 \/ chunkSize > Len(inputs) \/ Len(inputs) < 2)) =>
        chunks = <<inputs>>

\* Witness of C6: a negative size on a slice that a positive size would split.
C6_Witness ==
    Chunked /\ chunkSize = -1 /\ Len(inputs) = 3 /\ chunks = <<inputs>>


----------------------------------------------------------------------------
(* Properties of one Caller.Call (specification Spec).                     *)

Dispatched == pc = "done" /\ op = "Call"

\* The aggregated call was made once and answered.
Answered == Dispatched /\ Len(remoteLog) = 1 /\ ~remoteLog[1].err

Results == remoteLog[1].results

\* What the unit at index i (1-based) was before the call, and is after it.
Before(i) == calls0[args[i]]
After(i) == calls[args[i]]

NumOut(c) == ABI[c.Method].nout
BadInputs(c) == Len(c.Inputs) # ABI[c.Method].nin

\* The bytes of entry i decode for the method of unit i.
Decodes(i) == Len(Results[i].ReturnData) >= NumOut(Before(i))

\* The destination of unit i is a pointer to a struct with one field per
\* declared output.
WellFormed(i) ==
    Before(i).Kind = "ptr_struct" /\ Len(Before(i).Outputs) = NumOut(Before(i))

\* Unpacking entry i returns an error / runs out of decoded values.
UnpackErrs(i) ==
    Results[i].Success /\ (Before(i).Kind \notin {"ptr_struct", "struct"} \/ ~Decodes(i))
UnpackPanics(i) ==
    /\ Results[i].Success /\ ~UnpackErrs(i)
    /\ (Before(i).Kind # "ptr_struct" \/ Len(Before(i).Outputs) > NumOut(Before(i)))
UnpackStops(i) == UnpackErrs(i) \/ UnpackPanics(i)

\* Every field of unit i holds the decoded value of the same position.
HoldsEntry(i) ==
    \A f \in 1..Len(After(i).Outputs) : After(i).Outputs[f] = Results[i].ReturnData[f]

\* C2: when the aggregated call succeeds with success-flag true at every
\* position (and every entry decodes into a destination of the declared
\* shape), the dispatch returns the input sequence without error, every
\* failure flag is false and the destination of unit i holds the values
\* decoded from entry i.
C2_AllSucceed ==
    (Answered /\ \A i \in 1..Len(args) :
                    Results[i].Success /\ WellFormed(i) /\ Decodes(i)) =>
        /\ err = Nil
        /\ ret = args
        /\ Len(Results) = Len(args)
        /\ \A i \in 1..Len(args) :
            /\ ~After(i).Failed
            /\ After(i).Outputs = SubSeq(Results[i].ReturnData, 1, NumOut(Before(i)))

\* Witness of C2: two units of different methods, flagged failed before the
\* call, both answered with success.
C2_Witness ==
    /\ Answered /\ Len(args) = 2 /\ err = Nil
    /\ \A i \in 1..2 : Results[i].Success /\ WellFormed(i) /\ Decodes(i) /\ Before(i).Failed
    /\ Before(1).Method # Before(2).Method
    /\ After(2).Outputs = <<ReturnWord(2, 1)>>

\* C3: when the aggregated call succeeds, a unit whose entry has success-flag
\* false is never unpacked and keeps its destination; once the loop reaches
\* it its failure flag is true; a failed entry never makes the dispatch
\* return an error: if every entry with success-flag true unpacks, the
\* dispatch returns nil and every other unit is processed from its own entry.
C3_FailedEntryIsRecorded ==
    Answered =>
        /\ \A i \in 1..Len(args) : ~Results[i].Success =>
            /\ args[i] \notin unpacked
            /\ After(i).Outputs = Before(i).Outputs
            /\ (\A j \in 1..(i - 1) : ~UnpackStops(j)) => After(i).Failed
        /\ (\A j \in 1..Len(args) : ~UnpackStops(j)) =>
            /\ err = Nil
            /\ ret = args
            /\ \A j \in 1..Len(args) : Results[j].Success =>
                ~After(j).Failed /\ args[j] \in unpacked /\ HoldsEntry(j)

\* Witness of C3: the first entry failed, its unit was not flagged before,
\* and the second unit was filled from the second entry.
C3_Witness ==
    /\ Answered /\ Len(args) = 2 /\ err = Nil
    /\ ~Results[1].Success /\ ~Before(1).Failed /\ After(1).Failed
    /\ Len(Results[1].ReturnData) > 0
    /\ Results[2].Success /\ After(2).Outputs = <<ReturnWord(2, 1)>>

\* C7: when the aggregated call itself fails, the dispatch returns an error
\* with the original units, and no failure flag and no destination changed.
C7_RemoteFailureLeavesUnits ==
    (Dispatched /\ Len(remoteLog) = 1 /\ remoteLog[1].err) =>
        /\ err = <<Frame("multicall", -1)>>
        /\ ret = args
        /\ calls = calls0
        /\ unpacked = {}

\* Witness of C7: a failed aggregated call on two units flagged failed before.
C7_Witness ==
    /\ Dispatched /\ Len(remoteLog) = 1 /\ remoteLog[1].err
    /\ Len(args) = 2 /\ Before(1).Failed /\ After(1).Failed

\* First index (1-based) whose inputs do not fit its method, 0 if none.
FirstBadInputs ==
    IF \E i \in 1..Len(args) : BadInputs(Before(i))
    THEN CHOOSE i \in 1..Len(args) :
            BadInputs(Before(i)) /\ \A j \in 1..(i - 1) : ~BadInputs(Before(j))
    ELSE 0

\* C8: units are packed in input order before any remote exchange: if packing
\* first fails at index i the dispatch returns an error identifying i, the
\* aggregated call is never made, and no failure flag and no destination
\* changed; if no packing fails, the aggregated call is sent every unit's
\* packed data in input order.
C8_PackFailureAborts ==
    Dispatched =>
        /\ FirstBadInputs # 0 =>
            /\ Len(err) = 2 /\ err[1] = Frame("pack_at", FirstBadInputs - 1)
            /\ remoteLog = <<>>
            /\ ret = args
            /\ calls = calls0
            /\ unpacked = {}
        /\ FirstBadInputs = 0 =>
            /\ Len(remoteLog) = 1
            /\ Len(remoteLog[1].multiCalls) = Len(args)
            /\ \A i \in 1..Len(args) :
                remoteLog[1].multiCalls[i].CallData.words = Before(i).Inputs

\* Witness of C8: the second of two units fails to pack, the first would pack.
C8_Witness ==
    /\ Dispatched /\ Len(args) = 2 /\ FirstBadInputs = 2
    /\ err[1].index = 1 /\ Before(1).Failed

\* First index (1-based) whose unpacking returns an error, 0 if none.
FirstUnpackError ==
    IF \E i \in 1..Len(args) : UnpackErrs(i)
    THEN CHOOSE i \in 1..Len(args) :
            UnpackErrs(i) /\ \A j \in 1..(i - 1) : ~UnpackErrs(j)
    ELSE 0

\* C10: when the aggregated call succeeds and unpacking first fails at index
\* i, the dispatch stops there with an error identifying i; every unit below
\* i has the failure flag and the outputs of its own entry, every unit above
\* i is unchanged, and only units whose entry has success-flag true had their
\* destination written.
C10_UnpackFailureStops ==
    (Answered /\ FirstUnpackError # 0
        /\ \A j \in 1..(FirstUnpackError - 1) : ~UnpackPanics(j)) =>
        LET i == FirstUnpackError
        IN  /\ Len(err) = 2 /\ err[1] = Frame("unpack_at", i - 1)
            /\ ret = args
            /\ \A j \in 1..(i - 1) :
                /\ After(j).Failed = ~Results[j].Success
                /\ Results[j].Success => HoldsEntry(j)
                /\ ~Results[j].Success => After(j).Outputs = Before(j).Outputs
            /\ \A j \in (i + 1)..Len(args) : After(j) = Before(j)
            /\ \A j \in 1..Len(args) :
                After(j).Outputs # Before(j).Outputs => Results[j].Success
            /\ unpacked \subseteq {args[j] : j \in 1..i}

\* Witness of C10: the first entry was unpacked into its unit, the second is
\* flagged successful but does not decode.
C10_Witness ==
    /\ Answered /\ Len(args) = 2 /\ FirstUnpackError = 2
    /\ Results[1].Success /\ After(1).Outputs = <<ReturnWord(1, 1)>>
    /\ Before(1).Failed /\ ~After(1).Failed
    /\ err[1].index = 1


----------------------------------------------------------------------------
(* Properties of one Call.Unpack (specification SpecUnpack).               *)

UnpackDone == pc = "done" /\ op = "Unpack"

\* C9: Unpack of a payload that decodes to k values into a destination that
\* has m # k fields, or is not a pointer to a struct, returns an error and
\* writes no field: no panic, no partial write, no surplus value ignored.
C9_MismatchIsAnError ==
    (UnpackDone
        /\ Len(payload) >= NumOut(calls0[1])
        /\ (calls0[1].Kind # "ptr_struct"
                \/ Len(calls0[1].Outputs) # NumOut(calls0[1]))) =>
        /\ err # Nil
        /\ err # Panic
        /\ calls = calls0

\* What the code does instead on a destination with more fields than values:
\* the fields that have a value are written, then the loop panics.
C9_PanicsAfterPartialWrite ==
    /\ UnpackDone /\ err = Panic
    /\ calls0[1].Kind = "ptr_struct" /\ calls0[1].Method = "balanceOf"
    /\ Len(calls0[1].Outputs) = 2 /\ Len(payload) = 1
    /\ calls[1].Outputs = <<payload[1], 0>>

----------------------------------------------------------------------------
(* Properties of one Caller.CallChunked (specification SpecChunked).       *)

ChunkedDone == pc = "done" /\ op = "CallChunked"

\* The chunks the Chunker makes of the argument list.
TheChunks == chunkInputs(chunkSize, args)

\* Entry p of the answer to the dispatch of chunk c.
EntryOf(c, p) == remoteLog[c].results[p]

\* Chunk c (1-based) cannot be dispatched successfully: one of its units does
\* not pack, or its aggregated call failed, or an entry flagged successful
\* does not decode.
ChunkPackFails(c) ==
    \E p \in 1..Len(TheChunks[c]) : BadInputs(calls0[TheChunks[c][p]])
ChunkRemoteFails(c) ==
    ~ChunkPackFails(c) /\ c <= Len(remoteLog) /\ remoteLog[c].err
ChunkUnpackFails(c) ==
    /\ ~ChunkPackFails(c) /\ c <= Len(remoteLog) /\ ~remoteLog[c].err
    /\ \E p \in 1..Len(TheChunks[c]) :
            /\ EntryOf(c, p).Success
            /\ Len(EntryOf(c, p).ReturnData) < NumOut(calls0[TheChunks[c][p]])
ChunkFails(c) == ChunkPackFails(c) \/ ChunkRemoteFails(c) \/ ChunkUnpackFails(c)

FirstFailedChunk ==
    IF \E c \in 1..Len(TheChunks) : ChunkFails(c)
    THEN CHOOSE c \in 1..Len(TheChunks) :
            ChunkFails(c) /\ \A b \in 1..(c - 1) : ~ChunkFails(b)
    ELSE 0

\* The unit at position p of chunk c is as the answer to its chunk makes it.
ProcessedFrom(c, p) ==
    LET u == TheChunks[c][p]
    IN  /\ calls[u].Failed = ~EntryOf(c, p).Success
        /\ EntryOf(c, p).Success =>
              calls[u].Outputs = SubSeq(EntryOf(c, p).ReturnData, 1, NumOut(calls0[u]))
        /\ ~EntryOf(c, p).Success => calls[u].Outputs = calls0[u].Outputs

C4_OneDispatchPerChunk ==
    (ChunkedDone /\ FirstFailedChunk = 0) =>
        /\ err = Nil
        /\ ret = args
        /\ Len(remoteLog) = Len(TheChunks)
        /\ \A c \in 1..Len(TheChunks) :
            /\ remoteLog[c].ids = TheChunks[c]
            /\ Len(remoteLog[c].multiCalls) = Len(TheChunks[c])
            /\ \A p \in 1..Len(TheChunks[c]) :
                /\ remoteLog[c].multiCalls[p].CallData.words = calls0[TheChunks[c][p]].Inputs
                /\ ProcessedFrom(c, p)

\* Witness of C4: three units in chunks of two, dispatched as a chunk of two
\* and a chunk of one, all three destinations filled.
C4_Witness ==
    /\ ChunkedDone /\ Len(args) = 3 /\ chunkSize = 2 /\ err = Nil
    /\ Len(remoteLog) = 2
    /\ Len(remoteLog[1].multiCalls) = 2 /\ Len(remoteLog[2].multiCalls) = 1
    /\ \A u \in 1..3 : calls[u].Outputs = <<ReturnWord(u, 1)>>
    /\ ret = <<1, 2, 3>>


====
